---------------------------- MODULE Spec2Model ----------------------------
(***************************************************************************)
(* Recycle Cam (src/app.js, src/mappings.js): the start-button handler,    *)
(* the camera functions, the requestAnimationFrame-driven detection loop   *)
(* with its asynchronous classifier call, the label matcher over the       *)
(* material lexicon, the temporal smoothing of accepted names and the      *)
(* confidence display.                                                     *)
(*                                                                         *)
(* Strings the code inspects character by character (classifier labels,    *)
(* lexicon patterns) are sequences of one-character strings.  Scores are   *)
(* probabilities in hundredths (20 is 0.20): on that grid the code's       *)
(* comparisons with 0.05 and 0.15 and its Math.round(score * 3 * 100) are  *)
(* exact.                                                                  *)
(***************************************************************************)
EXTENDS Integers, Sequences, FiniteSets, TLC

\* JavaScript's null
NULL == "null"

Min(a, b) == IF a < b THEN a ELSE b

(***************************************************************************)
(* mappings.js: materialMappings, in declaration order                     *)
(***************************************************************************)
\* materialMappings.compost (mappings.js lines 26-49)
compostItems ==
  << <<"o","n","i","o","n">>,
     <<"r","e","d"," ","o","n","i","o","n">>,
     <<"y","e","l","l","o","w"," ","o","n","i","o","n">>,
     <<"w","h","i","t","e"," ","o","n","i","o","n">>,
     <<"s","h","a","l","l","o","t">>,
     <<"g","a","r","l","i","c">>,
     <<"l","e","e","k">>,
     <<"G","r","a","n","n","y"," ","S","m","i","t","h">>,
     <<"h","e","a","d"," ","c","a","b","b","a","g","e">>,
     <<"b","e","l","l"," ","p","e","p","p","e","r">>,
     <<"a","c","o","r","n"," ","s","q","u","a","s","h">>,
     <<"b","u","t","t","e","r","n","u","t"," ","s","q","u","a","s","h">>,
     <<"c","u","c","u","m","b","e","r">>,
     <<"z","u","c","c","h","i","n","i">>,
     <<"e","g","g","p","l","a","n","t">>,
     <<"a","r","t","i","c","h","o","k","e">>,
     <<"m","u","s","h","r","o","o","m">>,
     <<"t","u","r","n","i","p">>,
     <<"k","o","h","l","r","a","b","i">> >>

\* materialMappings.paper (mappings.js lines 54-54)
paperItems ==
  << >>

\* materialMappings.metal (mappings.js lines 59-59)
metalItems ==
  << >>

\* materialMappings.glass (mappings.js lines 64-64)
glassItems ==
  << >>

\* materialMappings.plastic (mappings.js lines 69-102)
plasticItems ==
  << <<"w","a","t","e","r"," ","b","o","t","t","l","e">>,
     <<"p","l","a","s","t","i","c"," ","b","o","t","t","l","e">>,
     <<"b","o","t","t","l","e">>,
     <<"p","o","p"," ","b","o","t","t","l","e">>,
     <<"w","a","t","e","r"," ","j","u","g">>,
     <<"f","l","a","s","k">>,
     <<"p","i","t","c","h","e","r">>,
     <<"c","a","r","a","f","e">>,
     <<"j","u","g">>,
     <<"c","a","n","t","e","e","n">>,
     <<"t","h","e","r","m","o","s">>,
     <<"p","u","n","c","h","i","n","g"," ","b","a","g">>,
     <<"p","u","n","c","h"," ","b","a","g">>,
     <<"p","u","n","c","h","i","n","g"," ","b","a","l","l">>,
     <<"v","a","c","u","u","m">>,
     <<"v","a","s","e">>,
     <<"s","h","a","k","e","r">>,
     <<"c","o","c","k","t","a","i","l"," ","s","h","a","k","e","r">>,
     <<"b","e","e","r"," ","b","o","t","t","l","e">>,
     <<"w","i","n","e"," ","b","o","t","t","l","e">>,
     <<"p","i","l","l"," ","b","o","t","t","l","e">>,
     <<"w","a","t","e","r"," ","t","o","w","e","r">>,
     <<"c","y","l","i","n","d","e","r">>,
     <<"c","o","n","t","a","i","n","e","r">>,
     <<"t","u","m","b","l","e","r">>,
     <<"m","u","g">>,
     <<"c","u","p">>,
     <<"b","a","r","r","e","l">>,
     <<"c","a","s","k">>,
     <<"d","r","u","m">> >>

\* materialMappings.landfill (mappings.js lines 107-164)
landfillItems ==
  << <<"b","a","l","l","p","o","i","n","t">>,
     <<"b","a","l","l","p","o","i","n","t"," ","p","e","n">>,
     <<"b","a","l","l"," ","p","e","n">>,
     <<"p","e","n">>,
     <<"f","o","u","n","t","a","i","n"," ","p","e","n">>,
     <<"q","u","i","l","l">>,
     <<"q","u","i","l","l"," ","p","e","n">>,
     <<"p","e","n","c","i","l">>,
     <<"m","e","c","h","a","n","i","c","a","l"," ","p","e","n","c","i","l">>,
     <<"m","a","r","k","e","r">>,
     <<"f","e","l","t","-","t","i","p">>,
     <<"h","i","g","h","l","i","g","h","t","e","r">>,
     <<"w","r","i","t","i","n","g"," ","i","m","p","l","e","m","e","n","t">>,
     <<"s","t","y","l","u","s">>,
     <<"r","u","l","e">>,
     <<"r","u","b","b","e","r"," ","e","r","a","s","e","r">>,
     <<"p","l","u","n","g","e","r">>,
     <<"p","l","u","m","b","e","r","'","s"," ","h","e","l","p","e","r">>,
     <<"s","c","r","e","w","d","r","i","v","e","r">>,
     <<"h","a","m","m","e","r">>,
     <<"n","a","i","l">>,
     <<"l","i","p","s","t","i","c","k">>,
     <<"t","o","r","c","h">>,
     <<"f","l","a","s","h","l","i","g","h","t">>,
     <<"l","i","g","h","t","e","r">>,
     <<"c","a","n","d","l","e">>,
     <<"m","i","s","s","i","l","e">>,
     <<"p","r","o","j","e","c","t","i","l","e">>,
     <<"s","t","i","c","k">>,
     <<"b","a","t","o","n">>,
     <<"d","r","u","m","s","t","i","c","k">>,
     <<"m","a","t","c","h">>,
     <<"m","a","t","c","h","s","t","i","c","k">>,
     <<"s","t","e","t","h","o","s","c","o","p","e">>,
     <<"s","y","r","i","n","g","e">>,
     <<"t","h","e","r","m","o","m","e","t","e","r">>,
     <<"s","u","n","g","l","a","s","s">>,
     <<"s","u","n","g","l","a","s","s","e","s">>,
     <<"e","y","e","g","l","a","s","s">>,
     <<"e","y","e","g","l","a","s","s","e","s">>,
     <<"g","l","a","s","s","e","s">>,
     <<"s","p","e","c","t","a","c","l","e","s">>,
     <<"r","e","a","d","i","n","g"," ","g","l","a","s","s","e","s">>,
     <<"e","y","e"," ","g","l","a","s","s","e","s">>,
     <<"g","o","g","g","l","e","s">>,
     <<"l","o","u","p","e">>,
     <<"m","a","g","n","i","f","y","i","n","g"," ","g","l","a","s","s">>,
     <<"l","e","n","s">>,
     <<"o","p","t","i","c","a","l">>,
     <<"f","r","a","m","e">>,
     <<"r","i","m","l","e","s","s">>,
     <<"b","i","f","o","c","a","l">>,
     <<"m","o","n","o","c","l","e">> >>

\* the eyewear keywords of the landfill case (app.js lines 158-172)
eyewearKeywords ==
  { <<"s","u","n","g","l","a","s","s">>,
    <<"s","u","n","g","l","a","s","s","e","s">>,
    <<"e","y","e","g","l","a","s","s">>,
    <<"e","y","e","g","l","a","s","s","e","s">>,
    <<"g","l","a","s","s","e","s">>,
    <<"s","p","e","c","t","a","c","l","e","s">>,
    <<"r","e","a","d","i","n","g"," ","g","l","a","s","s","e","s">>,
    <<"g","o","g","g","l","e","s">>,
    <<"l","o","u","p","e">>,
    <<"l","e","n","s">>,
    <<"o","p","t","i","c","a","l">>,
    <<"f","r","a","m","e">>,
    <<"m","o","n","o","c","l","e">>,
    <<"b","i","f","o","c","a","l">> }

\* Object.entries(materialMappings): the categories in declaration order
materialMappings ==
  << [category |-> "compost",  items |-> compostItems],
     [category |-> "paper",    items |-> paperItems],
     [category |-> "metal",    items |-> metalItems],
     [category |-> "glass",    items |-> glassItems],
     [category |-> "plastic",  items |-> plasticItems],
     [category |-> "landfill", items |-> landfillItems] >>

(***************************************************************************)
(* String operations of the matcher                                        *)
(***************************************************************************)
UpperCaseLetters ==
  <<"A","B","C","D","E","F","G","H","I","J","K","L","M",
    "N","O","P","Q","R","S","T","U","V","W","X","Y","Z">>

LowerCaseLetters ==
  <<"a","b","c","d","e","f","g","h","i","j","k","l","m",
    "n","o","p","q","r","s","t","u","v","w","x","y","z">>

\* String.prototype.toLowerCase
toLowerCase(s) ==
  [i \in 1..Len(s) |->
     IF \E k \in DOMAIN UpperCaseLetters : UpperCaseLetters[k] = s[i]
       THEN LowerCaseLetters[CHOOSE k \in DOMAIN UpperCaseLetters : UpperCaseLetters[k] = s[i]]
       ELSE s[i]]

\* String.prototype.toUpperCase
toUpperCase(s) ==
  [i \in 1..Len(s) |->
     IF \E k \in DOMAIN LowerCaseLetters : LowerCaseLetters[k] = s[i]
       THEN UpperCaseLetters[CHOOSE k \in DOMAIN LowerCaseLetters : LowerCaseLetters[k] = s[i]]
       ELSE s[i]]

\* String.prototype.includes
includes(t, item) ==
  \E i \in 0..(Len(t) - Len(item)) :
     \A j \in 1..Len(item) : t[i + j] = item[j]

\* the test of one lexicon item against the lowercased label (app.js line 130)
itemMatches(t, item) ==
  LET p == toLowerCase(item) IN t = p \/ includes(t, p)

\* the landfill case of the switch: "Glasses" or "Pen"
landfillDisplayName(t) ==
  IF \E g \in eyewearKeywords : includes(t, g) THEN "Glasses" ELSE "Pen"

\* the switch on the matched category
categoryResult(category, t) ==
  CASE category = "compost"  -> [bucket |-> "Compost", displayName |-> "Onion"]
    [] category = "paper"    -> [bucket |-> "Paper / Cardboard", displayName |-> "Paper"]
    [] category = "metal"    -> [bucket |-> "Metal", displayName |-> "Metal Item"]
    [] category = "glass"    -> [bucket |-> "Glass", displayName |-> "Glass Item"]
    [] category = "plastic"  -> [bucket |-> "Plastic", displayName |-> "Water Bottle"]
    [] category = "landfill" -> [bucket |-> "Landfill", displayName |-> landfillDisplayName(t)]
    [] OTHER                 -> [bucket |-> "Unknown", displayName |-> "Item"]

\* firstMatchingCategory that keeps the last category with a matching item
firstMatchingCategoryLast(t) ==
  LET hits == { k \in DOMAIN materialMappings :
                  \E j \in DOMAIN materialMappings[k].items :
                     itemMatches(t, materialMappings[k].items[j]) }
  IN  IF hits = {} THEN 0 ELSE CHOOSE k \in hits : \A m \in hits : k >= m

\* the category whose item the nested for-loops reach first, 0 when they reach none
firstMatchingCategory(t) ==
  LET hits == { k \in DOMAIN materialMappings :
                  \E j \in DOMAIN materialMappings[k].items :
                     itemMatches(t, materialMappings[k].items[j]) }
  IN  IF hits = {} THEN 0 ELSE CHOOSE k \in hits : \A m \in hits : k <= m

\* the null mapToRecycleBucket returns, written as a record so that it compares
\* with the results
NoResult == [bucket |-> NULL, displayName |-> NULL]

\* mapToRecycleBucket that matches the label as it is written
mapToRecycleBucketAsWritten(label) ==
  LET t == label
      k == firstMatchingCategory(t)
  IN  IF k = 0 THEN NoResult ELSE categoryResult(materialMappings[k].category, t)

\* mapToRecycleBucket(label): { bucket, displayName } or null
mapToRecycleBucket(label) ==
  LET t == toLowerCase(label)
      k == firstMatchingCategory(t)
  IN  IF k = 0 THEN NoResult ELSE categoryResult(materialMappings[k].category, t)

(***************************************************************************)
(* Temporal smoothing                                                      *)
(***************************************************************************)
HISTORY_SIZE == 5
MIN_FREQUENCY == 2

\* freq[item] after the forEach
Occurrences(arr, item) == Cardinality({ i \in DOMAIN arr : arr[i] = item })

\* the position at which freq got the key: Object.entries lists the keys in
\* insertion order
FirstOccurrence(arr, item) ==
  CHOOSE i \in DOMAIN arr : arr[i] = item /\ \A j \in DOMAIN arr : arr[j] = item => i <= j

\* freq after the forEach, as Object.entries lists it: the [key, count] pairs
\* in the order in which the keys were inserted (the keys are display names,
\* none of which is an integer index)
RECURSIVE freqEntries(_)
freqEntries(arr) ==
  IF Len(arr) = 0 THEN << >>
  ELSE LET before == freqEntries(SubSeq(arr, 1, Len(arr) - 1))
           item == arr[Len(arr)]
       IN  IF \E k \in DOMAIN before : before[k][1] = item
             THEN SubSeq([k \in DOMAIN before |->
                            IF before[k][1] = item THEN <<item, before[k][2] + 1>>
                                                   ELSE before[k]], 1, Len(before))
             ELSE Append(before, <<item, 1>>)

\* insertByCount that puts the entry before the entries of equal count
insertByCountBeforeEqual(sorted, entry) ==
  LET n == Cardinality({ k \in DOMAIN sorted : sorted[k][2] > entry[2] })
  IN  SubSeq(sorted, 1, n) \o <<entry>> \o SubSeq(sorted, n + 1, Len(sorted))

\* entry put into sorted (descending counts) behind the entries whose count is
\* not smaller: the comparator b[1] - a[1] never moves an entry before an
\* earlier entry of equal count, Array.prototype.sort being stable
insertByCount(sorted, entry) ==
  LET n == Cardinality({ k \in DOMAIN sorted : sorted[k][2] >= entry[2] })
  IN  SubSeq(sorted, 1, n) \o <<entry>> \o SubSeq(sorted, n + 1, Len(sorted))

\* entries.sort((a, b) => b[1] - a[1])
RECURSIVE sortByCount(_)
sortByCount(entries) ==
  IF Len(entries) = 0 THEN << >>
  ELSE insertByCount(sortByCount(SubSeq(entries, 1, Len(entries) - 1)), entries[Len(entries)])

\* getMostFrequent(arr): [mostFrequentItem, frequency], the first entry of the
\* sorted entries of freq, [null, 0] for an empty array
getMostFrequent(arr) ==
  IF Len(arr) = 0 THEN <<NULL, 0>>
  ELSE sortByCount(freqEntries(arr))[1]

\* pushHistory with the length test off by one: >= for >
pushHistoryShiftsEarly(history, displayName) ==
  LET pushed == Append(history, displayName)
  IN  IF Len(pushed) >= HISTORY_SIZE THEN Tail(pushed) ELSE pushed

\* detectionHistory.push(displayName); if longer than HISTORY_SIZE, shift()
pushHistory(history, displayName) ==
  LET pushed == Append(history, displayName)
  IN  IF Len(pushed) > HISTORY_SIZE THEN Tail(pushed) ELSE pushed

(***************************************************************************)
(* Region scoring.  A region is <<x, y, w, h>> in pixels and canvas the    *)
(* record of canvas.width and canvas.height.  sizeRatio is compared as the *)
(* fraction bboxArea / frameArea, dx, dy and centerDist are thousandths    *)
(* (rounded down), and the adjusted score is in units of 0.00001: the      *)
(* product of a score in hundredths and a factor in thousandths.           *)
(***************************************************************************)
Abs(a) == IF a < 0 THEN 0 - a ELSE a

\* the largest r in lo..(hi - 1) with r * r <= n, given lo * lo <= n < hi * hi
RECURSIVE sqrtBetween(_, _, _)
sqrtBetween(n, lo, hi) ==
  IF hi - lo <= 1 THEN lo
  ELSE LET mid == (lo + hi) \div 2
       IN  IF mid * mid <= n THEN sqrtBetween(n, mid, hi) ELSE sqrtBetween(n, lo, mid)

\* Math.sqrt, rounded down
sqrtFloor(n) == sqrtBetween(n, 0, Min(n, 40000) + 1)

\* the null validateAndScoreDetection returns
NoScore == [valid |-> FALSE, score |-> 0]

\* validateAndScoreDetection without the cap of line 252
validateAndScoreDetectionUncapped(bbox, score, canvas) ==
  LET frameArea == canvas.width * canvas.height
      bboxArea == bbox[3] * bbox[4]
      dx == (1000 * Abs(2 * bbox[1] + bbox[3] - canvas.width)) \div canvas.width
      dy == (1000 * Abs(2 * bbox[2] + bbox[4] - canvas.height)) \div canvas.height
      centerDist == sqrtFloor((dx * dx + dy * dy) \div 2)
      centerBoost == ((1000 - centerDist) * 2) \div 10
      sizeBoost == IF 10 * bboxArea >= frameArea /\ 10 * bboxArea <= 5 * frameArea
                     THEN 100 ELSE 0
      boostedScore == score * (1000 + centerBoost + sizeBoost)
  IN  IF 100 * bboxArea < 2 * frameArea \/ 100 * bboxArea > 85 * frameArea
        THEN NoScore
        ELSE [valid |-> TRUE, score |-> boostedScore]

\* validateAndScoreDetection(bbox, score), canvas being the global it reads:
\* null if sizeRatio < 0.02 or sizeRatio > 0.85, otherwise
\* Math.min(score * (1 + centerBoost + sizeBoost), 1.0), where
\* dx = (cx - W/2) / (W/2) = (2x + w - W) / W, centerDist = sqrt(dx^2 + dy^2) / sqrt(2),
\* centerBoost = (1 - centerDist) * 0.2 and sizeBoost = 0.1 for 0.1 <= sizeRatio <= 0.5
validateAndScoreDetection(bbox, score, canvas) ==
  LET frameArea == canvas.width * canvas.height
      bboxArea == bbox[3] * bbox[4]
      dx == (1000 * Abs(2 * bbox[1] + bbox[3] - canvas.width)) \div canvas.width
      dy == (1000 * Abs(2 * bbox[2] + bbox[4] - canvas.height)) \div canvas.height
      centerDist == sqrtFloor((dx * dx + dy * dy) \div 2)
      centerBoost == ((1000 - centerDist) * 2) \div 10
      sizeBoost == IF 10 * bboxArea >= frameArea /\ 10 * bboxArea <= 5 * frameArea
                     THEN 100 ELSE 0
      boostedScore == score * (1000 + centerBoost + sizeBoost)
  IN  IF 100 * bboxArea < 2 * frameArea \/ 100 * bboxArea > 85 * frameArea
        THEN NoScore
        ELSE [valid |-> TRUE, score |-> Min(boostedScore, 100000)]

(***************************************************************************)
(* UI update functions.  The page is the record                            *)
(*   detected       targetZone has the class "detected"                    *)
(*   dataCategory   hudCard's data-category                                *)
(*   categoryValue  categoryValue.textContent                              *)
(*   detectionText  detectionText.textContent                              *)
(*   dotInactive    detectionDot has the class "inactive"                  *)
(*   tipIcon        the tip whose icon tipIcon shows ("seeing": the lens)  *)
(*   tipText        tipText.textContent: <<"tip", key>>, <<"Detected",     *)
(*                  name>> or <<"Seeing", className>>                      *)
(*   tipSuccess     tipsBanner has the class "success"                     *)
(*   percent, tier  the confidence meter                                   *)
(*   circle         the label of the circle on the canvas, NULL if cleared *)
(***************************************************************************)

\* what the markup shows before any script has written to an element
HTML == "html"

\* the display names the switch of mapToRecycleBucket can produce, as characters
displayNameChars ==
  [ name \in {"Onion", "Paper", "Metal Item", "Glass Item", "Water Bottle", "Glasses", "Pen", "Item"} |->
      CASE name = "Onion"        -> <<"O","n","i","o","n">>
        [] name = "Paper"        -> <<"P","a","p","e","r">>
        [] name = "Metal Item"   -> <<"M","e","t","a","l"," ","I","t","e","m">>
        [] name = "Glass Item"   -> <<"G","l","a","s","s"," ","I","t","e","m">>
        [] name = "Water Bottle" -> <<"W","a","t","e","r"," ","B","o","t","t","l","e">>
        [] name = "Glasses"      -> <<"G","l","a","s","s","e","s">>
        [] name = "Pen"          -> <<"P","e","n">>
        [] name = "Item"         -> <<"I","t","e","m">> ]

\* s.split(sep)[0]: the part of s before the first sep
firstPart(s, sep) ==
  IF \E i \in DOMAIN s : s[i] = sep
    THEN SubSeq(s, 1, (CHOOSE i \in DOMAIN s : s[i] = sep /\ \A j \in 1..(i - 1) : s[j] # sep) - 1)
    ELSE s

\* String.prototype.trim (of blanks)
trim(s) ==
  LET solid == { i \in DOMAIN s : s[i] # " " }
  IN  IF solid = {} THEN << >>
      ELSE SubSeq(s, CHOOSE i \in solid : \A j \in solid : i <= j,
                     CHOOSE i \in solid : \A j \in solid : i >= j)

\* objectName.split(",")[0].split("(")[0].trim(), on a display name
cleanName(objectName) ==
  LET cleaned == trim(firstPart(firstPart(displayNameChars[objectName], ","), "("))
  IN  IF \E n \in DOMAIN displayNameChars : displayNameChars[n] = cleaned
        THEN CHOOSE n \in DOMAIN displayNameChars : displayNameChars[n] = cleaned
        ELSE cleaned

\* categoryConfig[bucket] || categoryConfig["Landfill / Unknown"], its key
categoryKey(bucket) ==
  CASE bucket = "Compost"            -> "compost"
    [] bucket = "Paper / Cardboard"  -> "paper"
    [] bucket = "Metal"              -> "metal"
    [] bucket = "Glass"              -> "glass"
    [] bucket = "Plastic"            -> "plastic"
    [] OTHER                         -> "unknown"

\* updateCategoryUI(bucket, objectName)
updateCategoryUI(page, bucket, objectName) ==
  IF bucket = NULL
    THEN [page EXCEPT !.dataCategory = "unknown", !.categoryValue = "Scanning...",
                      !.detectionText = "-", !.dotInactive = TRUE]
    ELSE IF objectName # NULL
      THEN [page EXCEPT !.dataCategory = categoryKey(bucket), !.categoryValue = bucket,
                        !.detectionText = cleanName(objectName), !.dotInactive = FALSE]
      ELSE [page EXCEPT !.dataCategory = categoryKey(bucket), !.categoryValue = bucket,
                        !.detectionText = "Scanning...", !.dotInactive = TRUE]

\* updateTip(tipKey, objectName)
updateTip(page, tipKey, objectName) ==
  [page EXCEPT !.tipIcon = tipKey,
               !.tipText = IF tipKey = "success" /\ objectName # NULL
                             THEN <<"Detected", cleanName(objectName)>>
                             ELSE <<"tip", tipKey>>,
               !.tipSuccess = (tipKey = "success")]

DISPLAY_BOOST == 3
TIER_LOW_MAX == 40
TIER_MEDIUM_MAX == 70

\* confidencePercent without the caps at 1.0 and at 100
confidencePercentUncapped(score) == score * DISPLAY_BOOST

\* the percent of updateConfidence(score): Math.min(Math.round(Math.min(score * 3, 1.0) * 100), 100)
confidencePercent(score) == Min(Min(score * DISPLAY_BOOST, 100), 100)

\* the class updateConfidence gives the meter
confidenceTier(percent) ==
  IF percent < TIER_LOW_MAX THEN "low"
  ELSE IF percent < TIER_MEDIUM_MAX THEN "medium" ELSE "high"

\* updateConfidence(score)
updateConfidence(page, score) ==
  [page EXCEPT !.percent = confidencePercent(score),
               !.tier = confidenceTier(confidencePercent(score))]

(***************************************************************************)
(* The classifier's answers.  A prediction is [className, probability];    *)
(* mobileNetModel.classify resolves with a list of them.                   *)
(***************************************************************************)
WaterBottle == <<"w","a","t","e","r"," ","b","o","t","t","l","e">>
Onion == <<"o","n","i","o","n">>
Sunglasses == <<"s","u","n","g","l","a","s","s","e","s">>
Car == <<"c","a","r">>

\* the labels and the probabilities (hundredths) of the frames of a session
SessionClassNames == {WaterBottle, Onion, Car}
SessionProbabilities == {5, 20}

\* the labels and the probabilities of the frame of one classification
FrameClassNames == {WaterBottle, Sunglasses, Car}
FrameProbabilities == {5, 6}

\* the longest prediction list of the frame of one classification
MaxPredictions == 4

\* the most consecutive frames without detection a session runs through
MaxNoDetection == 2

\* the most accepted frames recorded in a session whose accepted names are recorded
MaxAccepted == 6

SeqsUpTo(S, n) == UNION { [1..k -> S] : k \in 0..n }

Predictions(classNames, probabilities, n) ==
  SeqsUpTo([className : classNames, probability : probabilities], n)

\* a frame of a session is classified as nothing or as one prediction
SessionPredictions == Predictions(SessionClassNames, SessionProbabilities, 1)

\* the frame of one classification is classified as up to MaxPredictions predictions
FramePredictions == Predictions(FrameClassNames, FrameProbabilities, MaxPredictions)

\* every pattern of materialMappings
LexiconItems ==
  UNION { { materialMappings[k].items[j] : j \in DOMAIN materialMappings[k].items } :
          k \in DOMAIN materialMappings }

Cup == <<"c","u","p">>
MechanicalPencil == <<"m","e","c","h","a","n","i","c","a","l"," ","p","e","n","c","i","l">>

\* labels with patterns of two categories, in either order: a compost, a
\* plastic and a landfill pattern, short and long
MixedClassNames ==
  LET patterns == {Onion, WaterBottle, Cup, MechanicalPencil, Sunglasses}
  IN  { a \o <<",", " ">> \o b : a \in patterns, b \in patterns }

\* the labels of the classification of a lexicon label: each pattern as it is
\* written, in capitals, after other words and before other words (ImageNet
\* labels list synonyms after a comma), and a label no pattern is part of
LabelClassNames ==
  LexiconItems
    \cup { SubSeq(toUpperCase(item), 1, Len(item)) : item \in LexiconItems }
    \cup { <<"a", " ">> \o item : item \in LexiconItems }
    \cup { item \o <<",", " ", "x">> : item \in LexiconItems }
    \cup { Car }

\* mapToRecycleBucket on the labels the classifier answers with, evaluated once
labelResult ==
  [ l \in SessionClassNames \cup FrameClassNames \cup LabelClassNames \cup MixedClassNames |->
      mapToRecycleBucket(l) ]

(***************************************************************************)
(* loop(): the work on a resolved classification (app.js lines 539-599)    *)
(***************************************************************************)
TOP_K == 3
PROBABILITY_FLOOR == 5
LOW_CONFIDENCE == 15

\* acceptedIndex with the floor test off by one: >= for >
acceptedIndexAtFloor(predictions) ==
  LET top == SubSeq(predictions, 1, Min(TOP_K, Len(predictions)))
      hits == { i \in DOMAIN top :
                  /\ labelResult[top[i].className] # NoResult
                  /\ top[i].probability >= PROBABILITY_FLOOR }
  IN  IF hits = {} THEN 0 ELSE CHOOSE i \in hits : \A j \in hits : i <= j

\* the position in predictions of the prediction the for loop over
\* predictions.slice(0, 3) accepts, 0 when it accepts none
acceptedIndex(predictions) ==
  LET top == SubSeq(predictions, 1, Min(TOP_K, Len(predictions)))
      hits == { i \in DOMAIN top :
                  /\ labelResult[top[i].className] # NoResult
                  /\ top[i].probability > PROBABILITY_FLOOR }
  IN  IF hits = {} THEN 0 ELSE CHOOSE i \in hits : \A j \in hits : i <= j

\* frame: what the last settled classification did.  kind is "none" (nothing
\* settled yet), "accepted", "unmatched", "empty" or "failed"; predictions is the
\* list it resolved with and index the position of the accepted prediction
NoFrame == [kind |-> "none", predictions |-> << >>, index |-> 0, bucket |-> NULL,
            displayName |-> NULL, confirmed |-> FALSE, stableName |-> NULL]

\* isConfirmed with the frequency test off by one: > for >=
isConfirmedAbove(stable) == stable[2] > MIN_FREQUENCY /\ stable[1] # NULL

\* freq >= MIN_FREQUENCY && stableName (line 576)
isConfirmed(stable) == stable[2] >= MIN_FREQUENCY /\ stable[1] # NULL

\* isLowConfidence with the threshold test off by one: <= for <
isLowConfidenceAtThreshold(finalScore) == finalScore <= LOW_CONFIDENCE

\* finalScore < 0.15 (line 568)
isLowConfidence(finalScore) == finalScore < LOW_CONFIDENCE

\* the body of the if (result !== null && pred.probability > 0.05), lines 547-581
acceptPrediction(s, predictions, i) ==
  LET pred == predictions[i]
      result == labelResult[pred.className]
      finalScore == pred.probability
      history == pushHistory(s.detectionHistory, result.displayName)
      drawn == [s.ui EXCEPT !.circle = cleanName(result.displayName)]
      metered == updateConfidence(drawn, finalScore)
      tipped == IF isLowConfidence(finalScore)
                  THEN updateTip(metered, "lowConfidence", NULL)
                  ELSE updateTip(metered, "success", result.displayName)
      stable == getMostFrequent(history)
      confirmed == isConfirmed(stable)
  IN  [ detectionHistory |-> history,
        noDetectionFrames |-> 0,
        ui |-> IF confirmed
                 THEN updateCategoryUI([tipped EXCEPT !.detected = TRUE], result.bucket, stable[1])
                 ELSE tipped,
        frame |-> [kind |-> "accepted", predictions |-> predictions, index |-> i,
                   bucket |-> result.bucket,
                   displayName |-> result.displayName, confirmed |-> confirmed,
                   stableName |-> stable[1]] ]

\* noMatch that leaves the detected marker on the target zone
noMatchKeepsMarker(s, predictions) ==
  [ detectionHistory |-> s.detectionHistory,
    noDetectionFrames |-> s.noDetectionFrames + 1,
    ui |-> updateConfidence(
             updateCategoryUI(
               [s.ui EXCEPT !.circle = NULL,
                            !.tipText = <<"Seeing", predictions[1].className>>,
                            !.tipIcon = "seeing"],
               NULL, NULL),
             0),
    frame |-> [NoFrame EXCEPT !.kind = "unmatched", !.predictions = predictions] ]

\* noMatch that also empties the history
noMatchClearsHistory(s, predictions) ==
  [ detectionHistory |-> << >>,
    noDetectionFrames |-> s.noDetectionFrames + 1,
    ui |-> updateConfidence(
             updateCategoryUI(
               [s.ui EXCEPT !.circle = NULL, !.detected = FALSE,
                            !.tipText = <<"Seeing", predictions[1].className>>,
                            !.tipIcon = "seeing"],
               NULL, NULL),
             0),
    frame |-> [NoFrame EXCEPT !.kind = "unmatched", !.predictions = predictions] ]

\* the body of the if (!matched), lines 586-597
noMatch(s, predictions) ==
  [ detectionHistory |-> s.detectionHistory,
    noDetectionFrames |-> s.noDetectionFrames + 1,
    ui |-> updateConfidence(
             updateCategoryUI(
               [s.ui EXCEPT !.circle = NULL, !.detected = FALSE,
                            !.tipText = <<"Seeing", predictions[1].className>>,
                            !.tipIcon = "seeing"],
               NULL, NULL),
             0),
    frame |-> [NoFrame EXCEPT !.kind = "unmatched", !.predictions = predictions] ]

\* processPredictions without the break of line 581: every acceptable prediction
\* among the first three is accepted in turn
RECURSIVE acceptFrom(_, _, _)
acceptFrom(s, predictions, i) ==
  IF i > Min(TOP_K, Len(predictions)) THEN s
  ELSE IF /\ labelResult[predictions[i].className] # NoResult
          /\ predictions[i].probability > PROBABILITY_FLOOR
         THEN acceptFrom(acceptPrediction(s, predictions, i), predictions, i + 1)
         ELSE acceptFrom(s, predictions, i + 1)

processPredictionsNoBreak(s, predictions) ==
  IF Len(predictions) > 0
    THEN IF acceptedIndex(predictions) # 0
           THEN acceptFrom(s, predictions, 1)
           ELSE noMatch(s, predictions)
    ELSE [s EXCEPT !.frame = [NoFrame EXCEPT !.kind = "empty"]]

\* lines 539-599 on the session state s = [detectionHistory, noDetectionFrames, ui, frame]
processPredictions(s, predictions) ==
  IF Len(predictions) > 0
    THEN LET i == acceptedIndex(predictions)
         IN  IF i # 0 THEN acceptPrediction(s, predictions, i)
                      ELSE noMatch(s, predictions)
    ELSE [s EXCEPT !.frame = [NoFrame EXCEPT !.kind = "empty"]]

(***************************************************************************)
(* The program                                                             *)
(***************************************************************************)
VARIABLES
  stream,               \* stream is not null
  mobileNetModel,       \* mobileNetModel (and cocoModel) is not null
  running,
  detectionHistory,
  noDetectionFrames,
  lowConfidenceFrames,
  startBtnDisabled,     \* startBtn.disabled
  startPc,              \* where the click handler is suspended: "idle" (not
                        \* running), "getUserMedia", "loadedmetadata", "play",
                        \* "load", or "done" (returned after a successful start)
  rafQueue,             \* the number of requestAnimationFrame(loop) callbacks not yet run
  classifying,          \* the calls of loop() suspended at await classify: of
                        \* each, the predictions its frame resolves with
  ui,                   \* the page
  frame,                \* what the last completed classification did
  cameraStopped,        \* history variable: stopCamera() has stopped a stream
  track,                \* whether accepted is recorded in this behaviour
  accepted,             \* history variable: the accepted display names, in arrival order
  input,                \* the arguments of a function applied on its own, << >> in a session
  output                \* the values that application has returned so far

vars == <<stream, mobileNetModel, running, detectionHistory, noDetectionFrames,
          lowConfidenceFrames, startBtnDisabled, startPc, rafQueue, classifying,
          ui, frame, cameraStopped, track, accepted, input, output>>

session == [detectionHistory |-> detectionHistory, noDetectionFrames |-> noDetectionFrames,
            ui |-> ui, frame |-> frame]

InitialPage ==
  [detected |-> FALSE, dataCategory |-> HTML, categoryValue |-> HTML, detectionText |-> HTML,
   dotInactive |-> TRUE, tipIcon |-> HTML, tipText |-> <<HTML>>, tipSuccess |-> FALSE,
   percent |-> 0, tier |-> HTML, circle |-> NULL]

InitProgram ==
  /\ stream = FALSE
  /\ mobileNetModel = FALSE
  /\ running = FALSE
  /\ detectionHistory = << >>
  /\ noDetectionFrames = 0
  /\ lowConfidenceFrames = 0
  /\ startBtnDisabled = FALSE
  /\ startPc = "idle"
  /\ rafQueue = 0
  /\ classifying = << >>
  /\ ui = InitialPage
  /\ frame = NoFrame
  /\ cameraStopped = FALSE
  /\ accepted = << >>

\* no function is applied on its own
NoCall == input = << >> /\ output = << >>

Init == InitProgram /\ track = FALSE /\ NoCall

\* stopCamera(): the tracks are stopped and stream is null; no other variable
\* of the program is written (video.srcObject and the canvas are not modelled)
stopCamera ==
  /\ stream' = FALSE
  /\ cameraStopped' = (cameraStopped \/ stream)
  /\ UNCHANGED <<detectionHistory, noDetectionFrames, lowConfidenceFrames, running>>

\* clickable if the handler left the button enabled
clickableAlways == TRUE

\* a click on the start button reaches the handler unless the button is disabled
clickable == ~startBtnDisabled

\* startBtn.onclick up to the first await: the button is disabled, startCamera
\* stops a stream left by an earlier attempt (if (stream) stopCamera()) and asks
\* for the camera
StartClick ==
  /\ clickable
  /\ startBtnDisabled' = TRUE
  /\ IF stream THEN stopCamera
               ELSE UNCHANGED <<stream, cameraStopped, detectionHistory, noDetectionFrames,
                                lowConfidenceFrames, running>>
  /\ startPc' = "getUserMedia"
  /\ UNCHANGED <<mobileNetModel, rafQueue, classifying, ui, frame, track, accepted, input, output>>

\* the catch of startBtn.onclick
StartFailed ==
  /\ startBtnDisabled' = FALSE
  /\ startPc' = "idle"

\* getUserMedia resolves: stream is set, startCamera waits for loadedmetadata
GetUserMediaResolve ==
  /\ startPc = "getUserMedia"
  /\ stream' = TRUE
  /\ startPc' = "loadedmetadata"
  /\ UNCHANGED <<mobileNetModel, running, detectionHistory, noDetectionFrames,
                 lowConfidenceFrames, startBtnDisabled, rafQueue, classifying, ui,
                 frame, cameraStopped, track, accepted, input, output>>

\* getUserMedia rejects (no permission, no camera)
GetUserMediaReject ==
  /\ startPc = "getUserMedia"
  /\ StartFailed
  /\ UNCHANGED <<stream, mobileNetModel, running, detectionHistory, noDetectionFrames,
                 lowConfidenceFrames, rafQueue, classifying, ui, frame, cameraStopped, track, accepted, input, output>>

\* video.onloadedmetadata fires: startCamera goes on to await video.play()
LoadedMetadata ==
  /\ startPc = "loadedmetadata"
  /\ startPc' = "play"
  /\ UNCHANGED <<stream, mobileNetModel, running, detectionHistory, noDetectionFrames,
                 lowConfidenceFrames, startBtnDisabled, rafQueue, classifying, ui,
                 frame, cameraStopped, track, accepted, input, output>>

\* video.play() resolves: startCamera returns, the handler awaits the models
PlayResolve ==
  /\ startPc = "play"
  /\ startPc' = "load"
  /\ UNCHANGED <<stream, mobileNetModel, running, detectionHistory, noDetectionFrames,
                 lowConfidenceFrames, startBtnDisabled, rafQueue, classifying, ui,
                 frame, cameraStopped, track, accepted, input, output>>

\* video.play() rejects
PlayReject ==
  /\ startPc = "play"
  /\ StartFailed
  /\ UNCHANGED <<stream, mobileNetModel, running, detectionHistory, noDetectionFrames,
                 lowConfidenceFrames, rafQueue, classifying, ui, frame, cameraStopped, track, accepted, input, output>>

\* both models load: running = true, the page shows the scanning state and
\* the first iteration of loop is requested (lines 637-651)
LoadResolve ==
  /\ startPc = "load"
  /\ mobileNetModel' = TRUE
  /\ running' = TRUE
  /\ ui' = updateTip(updateCategoryUI(ui, NULL, NULL), "noObject", NULL)
  /\ rafQueue' = rafQueue + 1
  /\ startPc' = "done"
  /\ UNCHANGED <<stream, detectionHistory, noDetectionFrames, lowConfidenceFrames,
                 startBtnDisabled, classifying, frame, cameraStopped, track, accepted, input, output>>

\* a model fails to load
LoadReject ==
  /\ startPc = "load"
  /\ StartFailed
  /\ UNCHANGED <<stream, mobileNetModel, running, detectionHistory, noDetectionFrames,
                 lowConfidenceFrames, rafQueue, classifying, ui, frame, cameraStopped, track, accepted, input, output>>

\* Loop that requests the next call before it awaits the classification
LoopRequestsFirst ==
  /\ rafQueue > 0
  /\ \E videoReady \in BOOLEAN :
       IF ~running
         THEN /\ rafQueue' = rafQueue - 1
              /\ UNCHANGED classifying
         ELSE IF mobileNetModel /\ videoReady
           THEN /\ rafQueue' = rafQueue
                /\ \E predictions \in SessionPredictions :
                     classifying' = Append(classifying, predictions)
           ELSE /\ rafQueue' = rafQueue
                /\ UNCHANGED classifying
  /\ UNCHANGED <<stream, mobileNetModel, running, detectionHistory, noDetectionFrames,
                 lowConfidenceFrames, startBtnDisabled, startPc, ui, frame, cameraStopped, track, accepted, input, output>>

\* a requested call of loop() runs: it returns if not running, awaits the
\* classification of the current frame if the model and the video are ready,
\* and otherwise requests the next call
Loop ==
  /\ rafQueue > 0
  /\ \E videoReady \in BOOLEAN :
       IF ~running
         THEN /\ rafQueue' = rafQueue - 1
              /\ UNCHANGED classifying
         ELSE IF mobileNetModel /\ videoReady
           THEN /\ rafQueue' = rafQueue - 1
                /\ \E predictions \in SessionPredictions :
                     classifying' = Append(classifying, predictions)
           ELSE /\ rafQueue' = rafQueue
                /\ UNCHANGED classifying
  /\ UNCHANGED <<stream, mobileNetModel, running, detectionHistory, noDetectionFrames,
                 lowConfidenceFrames, startBtnDisabled, startPc, ui, frame, cameraStopped, track, accepted, input, output>>

Without(calls, c) == [ i \in 1..(Len(calls) - 1) |-> IF i < c THEN calls[i] ELSE calls[i + 1] ]

\* the classification a call of loop() awaits resolves: lines 539-599, then
\* requestAnimationFrame(loop)
ClassifyResolve ==
  \E c \in DOMAIN classifying :
     LET after == processPredictions(session, classifying[c])
         name == after.frame.displayName
     IN  /\ after.noDetectionFrames <= MaxNoDetection
         /\ (track /\ name # NULL) => Len(accepted) < MaxAccepted
         /\ detectionHistory' = after.detectionHistory
         /\ noDetectionFrames' = after.noDetectionFrames
         /\ ui' = after.ui
         /\ frame' = after.frame
         /\ accepted' = IF track /\ name # NULL THEN Append(accepted, name) ELSE accepted
         /\ classifying' = Without(classifying, c)
         /\ rafQueue' = rafQueue + 1
         /\ UNCHANGED <<stream, mobileNetModel, running, lowConfidenceFrames,
                        startBtnDisabled, startPc, cameraStopped, track, input, output>>

\* ClassifyReject that ends the loop: no next call is requested
ClassifyRejectStops ==
  \E c \in DOMAIN classifying :
     /\ classifying' = Without(classifying, c)
     /\ frame' = [NoFrame EXCEPT !.kind = "failed"]
     /\ UNCHANGED cameraStopped
     /\ UNCHANGED <<stream, mobileNetModel, running, detectionHistory, noDetectionFrames,
                    lowConfidenceFrames, startBtnDisabled, startPc, ui, track, accepted, rafQueue,
                    input, output>>

\* the classification rejects: the catch logs it, then requestAnimationFrame(loop)
ClassifyReject ==
  \E c \in DOMAIN classifying :
     /\ classifying' = Without(classifying, c)
     /\ frame' = [NoFrame EXCEPT !.kind = "failed"]
     /\ UNCHANGED cameraStopped
     /\ rafQueue' = rafQueue + 1
     /\ UNCHANGED <<stream, mobileNetModel, running, detectionHistory, noDetectionFrames,
                    lowConfidenceFrames, startBtnDisabled, startPc, ui, track, accepted, input, output>>

Next ==
  \/ StartClick
  \/ GetUserMediaResolve
  \/ GetUserMediaReject
  \/ LoadedMetadata
  \/ PlayResolve
  \/ PlayReject
  \/ LoadResolve
  \/ LoadReject
  \/ Loop
  \/ ClassifyResolve
  \/ ClassifyReject

Spec == Init /\ [][Next]_vars

(***************************************************************************)
(* A session whose accepted names are recorded                             *)
(***************************************************************************)
InitHist == InitProgram /\ track = TRUE /\ NoCall

SpecHist == InitHist /\ [][Next]_vars

(***************************************************************************)
(* One classification: a running session that has seen some frames awaits  *)
(* the classification of a frame with up to MaxPredictions predictions     *)
(***************************************************************************)
OnePrediction(className, probability) ==
  << [className |-> className, probability |-> probability] >>

\* the frames already classified, oldest first
PriorRuns ==
  { << >>,
    << OnePrediction(Car, 20) >>,
    << OnePrediction(WaterBottle, 20) >>,
    << OnePrediction(WaterBottle, 20), OnePrediction(WaterBottle, 20) >>,
    << OnePrediction(WaterBottle, 20), OnePrediction(Onion, 20), OnePrediction(Car, 20) >>,
    << OnePrediction(WaterBottle, 20), OnePrediction(Onion, 20), OnePrediction(Sunglasses, 20),
       OnePrediction(Onion, 20) >>,
    << OnePrediction(WaterBottle, 20), OnePrediction(Onion, 20), OnePrediction(Sunglasses, 20),
       OnePrediction(Onion, 20), OnePrediction(WaterBottle, 20) >>,
    << OnePrediction(Onion, 20), OnePrediction(WaterBottle, 20), OnePrediction(Sunglasses, 20),
       OnePrediction(Sunglasses, 20), OnePrediction(Onion, 20), OnePrediction(Car, 20) >> }

\* the session state when LoadResolve has started the session
StartedSession ==
  [detectionHistory |-> << >>, noDetectionFrames |-> 0,
   ui |-> updateTip(updateCategoryUI(InitialPage, NULL, NULL), "noObject", NULL),
   frame |-> NoFrame]

\* the session state after the classifications of run have resolved in order
RECURSIVE afterFrames(_)
afterFrames(run) ==
  IF run = << >> THEN StartedSession
  ELSE CHOOSE after \in { processPredictions(s, run[Len(run)]) :
                            s \in { afterFrames(SubSeq(run, 1, Len(run) - 1)) } } : TRUE

\* a running session that has classified one of runs and awaits one of lists
InitClassification(runs, lists) ==
  /\ stream = TRUE
  /\ mobileNetModel = TRUE
  /\ running = TRUE
  /\ lowConfidenceFrames = 0
  /\ startBtnDisabled = TRUE
  /\ startPc = "done"
  /\ rafQueue = 0
  /\ cameraStopped = FALSE
  /\ track = FALSE
  /\ accepted = << >>
  /\ NoCall
  /\ \E run \in runs :
       \E s \in { afterFrames(run) } :
          /\ detectionHistory = s.detectionHistory
          /\ noDetectionFrames = s.noDetectionFrames
          /\ ui = s.ui
          /\ frame = s.frame
  /\ \E predictions \in lists : classifying = << predictions >>

InitFrame == InitClassification(PriorRuns, FramePredictions)

NextFrame == ClassifyResolve \/ ClassifyReject

SpecFrame == InitFrame /\ [][NextFrame]_vars

(***************************************************************************)
(* One classification of a label of the lexicon: the first frame of a      *)
(* session is classified as one prediction, whose label is a pattern of    *)
(* materialMappings, alone, in capitals or inside a longer label           *)
(***************************************************************************)
InitLabel ==
  InitClassification({ << >> }, { OnePrediction(l, 20) : l \in LabelClassNames })

SpecLabel == InitLabel /\ [][NextFrame]_vars

(***************************************************************************)
(* One classification of a frame at each probability of the hundredths     *)
(* grid: a running session that has seen some frames awaits the            *)
(* classification of a frame with one prediction or none                   *)
(***************************************************************************)
ScoreGrid == 0..100

InitScore ==
  InitClassification(PriorRuns,
    { << >> } \cup { OnePrediction(l, p) : l \in FrameClassNames, p \in ScoreGrid })

SpecScore == InitScore /\ [][NextFrame]_vars

\* the canvas of a camera that grants the ideal constraints of startCamera
\* (canvas takes the size of the video)
DefaultCanvas == [width |-> 1280, height |-> 720]

\* the region lines 561-563 compute: a centered square, 0.7 of the smaller side
defaultRegion(canvas) ==
  LET size == (Min(canvas.width, canvas.height) * 7) \div 10
  IN  << (canvas.width - size) \div 2, (canvas.height - size) \div 2, size, size >>

(***************************************************************************)
(* One classification of a label with the patterns of one or two           *)
(* categories                                                              *)
(***************************************************************************)
InitOrder ==
  InitClassification({ << >> },
    { OnePrediction(l, 20) : l \in LabelClassNames \cup MixedClassNames })

SpecOrder == InitOrder /\ [][NextFrame]_vars

(***************************************************************************)
(* updateConfidence applied on its own to each score of the hundredths     *)
(* grid, on the page as it is loaded                                       *)
(***************************************************************************)
InitConfidence ==
  /\ InitProgram
  /\ track = FALSE
  /\ input \in { <<score>> : score \in ScoreGrid }
  /\ output = << >>

\* updateConfidence(score): it writes the meter and returns nothing
CallUpdateConfidence ==
  /\ output = << >>
  /\ ui' = updateConfidence(ui, input[1])
  /\ output' = << NULL >>
  /\ UNCHANGED <<stream, mobileNetModel, running, detectionHistory, noDetectionFrames,
                 lowConfidenceFrames, startBtnDisabled, startPc, rafQueue, classifying,
                 frame, cameraStopped, track, accepted, input>>

SpecConfidence == InitConfidence /\ [][CallUpdateConfidence]_vars

(***************************************************************************)
(* validateAndScoreDetection applied on its own: regions of whole pixels   *)
(* on a small canvas, from empty to the whole canvas and from the corner   *)
(* to the centre, and scores from 0 to 1                                   *)
(***************************************************************************)
SmallCanvas == [width |-> 20, height |-> 10]

RegionScores == {0, 50, 77, 100}

Regions(canvas) ==
  { <<x, y, w, h>> : x \in {0, 5, 10}, y \in {0, 5},
                     w \in 0..canvas.width, h \in 0..canvas.height }

InitRegion ==
  /\ InitProgram
  /\ track = FALSE
  /\ input \in { <<bbox, score, SmallCanvas>> : bbox \in Regions(SmallCanvas),
                                                 score \in RegionScores }
  /\ output = << >>

\* validateAndScoreDetection(bbox, score) returns; it writes nothing
CallValidateAndScoreDetection ==
  /\ output = << >>
  /\ output' = << validateAndScoreDetection(input[1], input[2], input[3]) >>
  /\ UNCHANGED <<stream, mobileNetModel, running, detectionHistory, noDetectionFrames,
                 lowConfidenceFrames, startBtnDisabled, startPc, rafQueue, classifying,
                 ui, frame, cameraStopped, track, accepted, input>>

SpecRegion == InitRegion /\ [][CallValidateAndScoreDetection]_vars

(***************************************************************************)
(* getMostFrequent applied on its own to every history of up to            *)
(* HISTORY_SIZE display names                                              *)
(***************************************************************************)
DisplayNames == {"Onion", "Water Bottle", "Glasses", "Pen"}

InitMostFrequent ==
  /\ InitProgram
  /\ track = FALSE
  /\ input \in { <<SubSeq(arr, 1, Len(arr))>> : arr \in SeqsUpTo(DisplayNames, HISTORY_SIZE) }
  /\ output = << >>

\* getMostFrequent(arr) returns; it writes nothing
CallGetMostFrequent ==
  /\ output = << >>
  /\ output' = << getMostFrequent(input[1]) >>
  /\ UNCHANGED <<stream, mobileNetModel, running, detectionHistory, noDetectionFrames,
                 lowConfidenceFrames, startBtnDisabled, startPc, rafQueue, classifying,
                 ui, frame, cameraStopped, track, accepted, input>>

SpecMostFrequent == InitMostFrequent /\ [][CallGetMostFrequent]_vars

(***************************************************************************)
(* A session under fair scheduling: the browser runs every requested       *)
(* animation frame callback, the video is ready again and again, and every *)
(* classifier call settles.  ClassifyReject is enabled exactly while a     *)
(* classification is awaited, and resolving disables it as rejecting does: *)
(* its weak fairness says that no classification is awaited forever, not   *)
(* that any classification fails.                                          *)
(***************************************************************************)
SpecFair ==
  /\ Init
  /\ [][Next]_vars
  /\ WF_vars(Loop)
  /\ WF_vars(ClassifyReject)

(***************************************************************************)
(* One classification after every history: a running session that has      *)
(* accepted up to HISTORY_SIZE frames of the four display names, in every  *)
(* order, possibly followed by a frame without detection, awaits the       *)
(* classification of a frame with one prediction; or the first frame of a  *)
(* session is classified as a label of the lexicon                         *)
(***************************************************************************)
NameClassNames == {Onion, WaterBottle, Sunglasses, MechanicalPencil}

\* the frames already classified: accepted frames, then at most one frame of a
\* label no pattern is part of
NameRuns ==
  LET acceptedRuns == { SubSeq(run, 1, Len(run)) :
                          run \in SeqsUpTo({ OnePrediction(l, 20) : l \in NameClassNames },
                                           HISTORY_SIZE) }
  IN  acceptedRuns \cup { Append(run, OnePrediction(Car, 20)) : run \in acceptedRuns }

InitNames ==
  \/ InitClassification(NameRuns,
       { OnePrediction(l, 20) : l \in NameClassNames \cup {Car} })
  \/ InitLabel

SpecNames == InitNames /\ [][NextFrame]_vars

(***************************************************************************)
(* Properties                                                              *)
(***************************************************************************)

\* a step in which a classification settles (resolves or rejects)
Settles == Len(classifying') < Len(classifying)

\* the last n entries of seq
LastOf(seq, n) == SubSeq(seq, Len(seq) - n + 1, Len(seq))

\* the most recent HISTORY_SIZE accepted names (all of them while there are fewer)
RecentAccepted == LastOf(accepted, Min(Len(accepted), 5))

\* C1: detectionHistory is exactly the last min(n, HISTORY_SIZE) accepted display
\* names in arrival order, n the number of accepted frames so far; it never
\* holds more than HISTORY_SIZE = 5 entries, and the mode an accepted frame
\* computes is the mode of those most recent names.
C1_HistoryIsRecentAccepted ==
  /\ Len(detectionHistory) <= 5
  /\ detectionHistory = RecentAccepted
  /\ frame.kind = "accepted" =>
       /\ frame.stableName \in { RecentAccepted[i] : i \in DOMAIN RecentAccepted }
       /\ \A i \in DOMAIN RecentAccepted :
            Occurrences(RecentAccepted, frame.stableName)
              >= Occurrences(RecentAccepted, RecentAccepted[i])

\* C1 witness: a sixth name has been accepted and the evicted oldest name is no
\* longer in the history
C1_Witness ==
  /\ track
  /\ Len(accepted) > 5
  /\ Len(detectionHistory) = 5
  /\ \A i \in DOMAIN detectionHistory : detectionHistory[i] # accepted[Len(accepted) - 5]
  /\ frame.kind = "accepted"

\* some name occurs at least MIN_FREQUENCY = 2 times in history
HasRepeated(history) ==
  \E i \in DOMAIN history : Occurrences(history, history[i]) >= 2

\* C2: an accepted frame is treated as confirmed (the target zone is marked
\* detected and the HUD shows the frame's bucket with the stable name) if and
\* only if some name occurs at least MIN_FREQUENCY = 2 times in the history after
\* the append; otherwise the frame leaves the marker and the HUD as they were.
C2_ConfirmedIffRepeated ==
  [][ (Settles /\ frame'.kind = "accepted") =>
        IF HasRepeated(detectionHistory')
          THEN /\ frame'.confirmed
               /\ ui'.detected
               /\ ui'.detectionText = frame'.stableName
               /\ Occurrences(detectionHistory', frame'.stableName) >= 2
               /\ ui'.categoryValue = frame'.bucket
          ELSE /\ ~frame'.confirmed
               /\ ui'.detected = ui.detected
               /\ ui'.detectionText = ui.detectionText
               /\ ui'.categoryValue = ui.categoryValue ]_vars

\* C2 witness: an accepted frame confirmed by a name that occurs exactly twice
\* among other names
C2_Witness ==
  /\ frame.kind = "accepted"
  /\ frame.confirmed
  /\ ui.detected
  /\ Occurrences(detectionHistory, frame.stableName) = 2
  /\ \E i \in DOMAIN detectionHistory : detectionHistory[i] # frame.stableName

\* C2, the other case: an accepted frame whose history holds pairwise distinct
\* names is not confirmed
C2_WitnessDistinct ==
  /\ frame.kind = "accepted"
  /\ ~frame.confirmed
  /\ ~ui.detected
  /\ Len(detectionHistory) = 2

\* C3 (its case never arises): stopCamera() never runs while a classification
\* is awaited, nor while a call of loop() is requested
StopOnlyBeforeLoop ==
  [][ (stream /\ ~stream') => (classifying = << >> /\ rafQueue = 0 /\ ~running) ]_vars

C5_OneIteration == rafQueue + Len(classifying) <= 1

\* C5 witness: after a failed start and a retry, a classification is awaited
\* in a session that has already settled one
C5_Witness ==
  /\ cameraStopped
  /\ Len(classifying) = 1
  /\ rafQueue = 0
  /\ frame.kind # "none"

\* C6: a classification that rejects leaves detectionHistory,
\* noDetectionFrames and the page unchanged, leaves running true, and requests
\* the next call of loop().
C6_RejectSkipsFrame ==
  [][ (Settles /\ frame'.kind = "failed") =>
        /\ detectionHistory' = detectionHistory
        /\ noDetectionFrames' = noDetectionFrames
        /\ ui' = ui
        /\ running /\ running'
        /\ rafQueue' = rafQueue + 1 ]_vars

\* C6 witness: a classification has rejected in a running session with history,
\* and the next call is requested
C6_Witness ==
  /\ frame.kind = "failed"
  /\ detectionHistory # << >>
  /\ running
  /\ rafQueue = 1

\* C7 as claimed: every frame in which no prediction is accepted, the frame
\* with an empty prediction list included, leaves detectionHistory unchanged
\* and adds one to noDetectionFrames.
C7_Original ==
  [][ (Settles /\ frame'.kind \in {"unmatched", "empty"}) =>
        /\ detectionHistory' = detectionHistory
        /\ noDetectionFrames' = noDetectionFrames + 1 ]_vars

\* C7 as amended: a frame with at least one prediction and none accepted leaves
\* detectionHistory unchanged and adds one to noDetectionFrames; a frame with
\* an empty prediction list leaves both unchanged.
C7_NoDetectionFrame ==
  [][ /\ (Settles /\ frame'.kind = "unmatched") =>
           /\ Len(frame'.predictions) > 0
           /\ detectionHistory' = detectionHistory
           /\ noDetectionFrames' = noDetectionFrames + 1
      /\ (Settles /\ frame'.kind = "empty") =>
           /\ Len(frame'.predictions) = 0
           /\ detectionHistory' = detectionHistory
           /\ noDetectionFrames' = noDetectionFrames ]_vars

\* C7 witness: two consecutive frames without detection, the history intact
C7_Witness ==
  /\ frame.kind = "unmatched"
  /\ noDetectionFrames >= 2
  /\ detectionHistory # << >>

\* a prediction the loop may accept: its label maps and its probability is
\* above 0.05
Acceptable(pred) == labelResult[pred.className] # NoResult /\ pred.probability > 5

\* the acceptable predictions among the first three
AcceptableTop(predictions) ==
  { i \in 1..Min(3, Len(predictions)) : Acceptable(predictions[i]) }

\* C8: an accepted frame appends exactly one entry to detectionHistory, the
\* display name of the accepted prediction (evicting the oldest entry at
\* capacity), and sets noDetectionFrames to 0.
C8_OneAppendPerFrame ==
  [][ (Settles /\ frame'.kind = "accepted") =>
        LET name == labelResult[frame'.predictions[frame'.index].className].displayName
            kept == IF Len(detectionHistory) < 5 THEN detectionHistory
                                                 ELSE Tail(detectionHistory)
        IN  /\ detectionHistory' = kept \o << name >>
            /\ noDetectionFrames' = 0 ]_vars

\* C8 witness: an accepted frame in which several of the first three
\* predictions were acceptable, with the history at capacity
C8_Witness ==
  /\ frame.kind = "accepted"
  /\ Cardinality(AcceptableTop(frame.predictions)) >= 2
  /\ Len(detectionHistory) = 5
  /\ noDetectionFrames = 0

\* C9: the accepted prediction is the first of the first three predictions
\* whose label maps to a category and whose probability is above 0.05; when
\* none of the first three is such, no prediction is accepted.
C9_FirstOfTopThree ==
  frame.kind \in {"accepted", "unmatched"} =>
    LET top == AcceptableTop(frame.predictions)
    IN  IF top = {}
          THEN frame.kind = "unmatched"
          ELSE /\ frame.kind = "accepted"
               /\ frame.index \in top
               /\ \A i \in top : frame.index <= i
               /\ frame.bucket = labelResult[frame.predictions[frame.index].className].bucket
               /\ frame.displayName = labelResult[frame.predictions[frame.index].className].displayName
               /\ detectionHistory[Len(detectionHistory)] = frame.displayName

\* C9 witness: the second of four predictions is accepted: the first maps but
\* has probability 0.05, the third is acceptable with another bucket, and so is
\* the fourth
C9_Witness ==
  /\ frame.kind = "accepted"
  /\ frame.index = 2
  /\ Len(frame.predictions) = 4
  /\ labelResult[frame.predictions[1].className] # NoResult
  /\ frame.predictions[1].probability = 5
  /\ Acceptable(frame.predictions[3])
  /\ labelResult[frame.predictions[3].className].bucket # frame.bucket
  /\ Acceptable(frame.predictions[4])

\* C9, the other case: no prediction is accepted although the fourth is acceptable
C9_WitnessFourth ==
  /\ frame.kind = "unmatched"
  /\ Len(frame.predictions) = 4
  /\ Acceptable(frame.predictions[4])

\* the categories (positions in materialMappings) with a pattern that the
\* lowercased label equals or contains
CategoriesOf(label) ==
  { k \in DOMAIN materialMappings :
      \E j \in DOMAIN materialMappings[k].items :
         itemMatches(toLowerCase(label), materialMappings[k].items[j]) }

\* C10 as claimed: a label that equals or contains a pattern listed under
\* category C is mapped to the bucket of category C.
C10_Original ==
  frame.kind \in {"accepted", "unmatched"} =>
    LET label == frame.predictions[1].className
    IN  \A k \in CategoriesOf(label) :
           /\ frame.kind = "accepted"
           /\ frame.bucket =
                categoryResult(materialMappings[k].category, toLowerCase(label)).bucket

\* the prediction an accepted frame accepted
AcceptedPrediction(f) == f.predictions[f.index]

\* Math.round(Math.min(score * 3, 1.0) * 100), capped at 100, of an adjusted
\* score (units of 0.00001)
AdjustedPercent(score) == Min((3 * score + 500) \div 1000, 100)

\* C11: on an accepted frame the score given to the confidence display is the
\* adjusted score validateAndScoreDetection returns for the default region and
\* the accepted prediction's probability: the displayed percent is the percent
\* of that adjusted score.  (The code gives the display the raw probability.)
C11_Original ==
  [][ (Settles /\ frame'.kind = "accepted") =>
        LET adjusted == validateAndScoreDetection(defaultRegion(DefaultCanvas),
                          AcceptedPrediction(frame').probability, DefaultCanvas)
        IN  /\ adjusted.valid
            /\ ui'.percent = AdjustedPercent(adjusted.score) ]_vars

\* the tips banner of page shows the tip tipKey of the tips table
ShowsTip(page, tipKey) ==
  /\ page.tipIcon = tipKey
  /\ page.tipText = <<"tip", tipKey>>
  /\ page.tipSuccess = (tipKey = "success")

\* the tips banner of page shows the success tip for the display name
ShowsDetected(page, displayName) ==
  /\ page.tipIcon = "success"
  /\ page.tipText = <<"Detected", displayName>>
  /\ page.tipSuccess

\* the tip of an accepted frame: lowConfidence below 0.15, success from 0.15 on
AcceptedTip(page, f) ==
  IF AcceptedPrediction(f).probability < 15
    THEN ShowsTip(page, "lowConfidence")
    ELSE ShowsDetected(page, f.displayName)

\* C12 as stated: the tip emitted for an accepted frame is "lowConfidence" when
\* the accepted prediction's raw probability is below 0.15 and "success"
\* otherwise, and the tip emitted for a frame with no accepted prediction is
\* "noObject".
C12_Original ==
  [][ Settles =>
        /\ frame'.kind = "accepted" => AcceptedTip(ui', frame')
        /\ frame'.kind \in {"unmatched", "empty"} => ShowsTip(ui', "noObject") ]_vars

\* C12: the tip emitted for an accepted frame is "lowConfidence" when the
\* accepted prediction's raw probability is below 0.15 and "success" (with the
\* display name) otherwise; a frame with predictions of which none is accepted
\* shows no tip of the table but the text "Seeing: <label of the first
\* prediction>" with the lens icon, and leaves the banner's success class as it
\* was; a frame with an empty prediction list, and a failed classification,
\* leave the banner as it was.
C12_TipOfFrame ==
  [][ Settles =>
        /\ frame'.kind = "accepted" => AcceptedTip(ui', frame')
        /\ frame'.kind = "unmatched" =>
             /\ ui'.tipIcon = "seeing"
             /\ ui'.tipText = <<"Seeing", frame'.predictions[1].className>>
             /\ ui'.tipSuccess = ui.tipSuccess
        /\ frame'.kind \in {"empty", "failed"} =>
             /\ ui'.tipIcon = ui.tipIcon
             /\ ui'.tipText = ui.tipText
             /\ ui'.tipSuccess = ui.tipSuccess ]_vars

\* C12 witness: a prediction of probability exactly 0.15 is accepted and the
\* success tip is shown
C12_Witness ==
  /\ frame.kind = "accepted"
  /\ AcceptedPrediction(frame).probability = 15
  /\ ShowsDetected(ui, frame.displayName)

\* C12 witness: a prediction of probability 0.14 is accepted and the
\* lowConfidence tip is shown
C12_WitnessLow ==
  /\ frame.kind = "accepted"
  /\ AcceptedPrediction(frame).probability = 14
  /\ ShowsTip(ui, "lowConfidence")

\* C12 witness: an unmatched frame shows its label while the banner still has
\* the success class of the frame before
C12_WitnessSeeing ==
  /\ frame.kind = "unmatched"
  /\ ui.tipIcon = "seeing"
  /\ ui.tipSuccess

\* C12 witness: a frame with an empty prediction list leaves the tip of the
\* frame before
C12_WitnessEmpty ==
  /\ frame.kind = "empty"
  /\ ui.tipIcon = "seeing"

\* C13: on every frame with at least one prediction of which none is accepted,
\* the result has no category (the HUD is in its scanning state), is not
\* confirmed (the detected marker is removed from the target zone whatever
\* detectionHistory holds), shows confidence 0, and the diagnostic text shows
\* the label of the first raw prediction.
C13_UnmatchedFrame ==
  [][ ( /\ Settles
        /\ Len(frame'.predictions) > 0
        /\ AcceptableTop(frame'.predictions) = {} ) =>
        /\ frame'.bucket = NULL
        /\ ui'.dataCategory = "unknown"
        /\ ui'.categoryValue = "Scanning..."
        /\ ui'.detectionText = "-"
        /\ ui'.dotInactive
        /\ ~frame'.confirmed
        /\ ~ui'.detected
        /\ ui'.percent = 0
        /\ ui'.tipText = <<"Seeing", frame'.predictions[1].className>>
        /\ detectionHistory' = detectionHistory ]_vars

\* C13 witness: a frame of several predictions, none accepted, has removed the
\* marker although a name is repeated in the history; the label shown is that
\* of the first prediction, which the second differs from
C13_Witness ==
  /\ frame.kind = "unmatched"
  /\ Len(frame.predictions) > 1
  /\ frame.predictions[1].className # frame.predictions[2].className
  /\ HasRepeated(detectionHistory)
  /\ ~ui.detected
  /\ ui.tipText = <<"Seeing", frame.predictions[1].className>>

\* C14: in a fresh session the first accepted frame is never confirmed, and a
\* second accepted frame with the same display name is confirmed; two frames
\* with the single prediction ("water bottle", 0.2) each give category Plastic,
\* display name "Water Bottle" and the success tip, confirmed false after the
\* first and true after the second.
C14_FirstTwoFrames ==
  [][ (Settles /\ frame'.kind = "accepted") =>
        /\ detectionHistory = << >> =>
             /\ ~frame'.confirmed
             /\ ~ui'.detected
        /\ detectionHistory = << frame'.displayName >> =>
             /\ frame'.confirmed
             /\ ui'.detected
             /\ ui'.detectionText = frame'.displayName
             /\ ui'.categoryValue = frame'.bucket
        /\ ( /\ frame'.predictions = OnePrediction(WaterBottle, 20)
             /\ detectionHistory \in { << >>, << "Water Bottle" >> } ) =>
             /\ frame'.bucket = "Plastic"
             /\ frame'.displayName = "Water Bottle"
             /\ ShowsDetected(ui', "Water Bottle")
             /\ frame'.confirmed = (detectionHistory # << >>) ]_vars

\* C14 witness: the second ("water bottle", 0.2) frame of a session has been
\* accepted and confirmed as Plastic
C14_Witness ==
  /\ detectionHistory = << "Water Bottle", "Water Bottle" >>
  /\ frame.kind = "accepted"
  /\ frame.predictions = OnePrediction(WaterBottle, 20)
  /\ frame.confirmed
  /\ ui.detected
  /\ ui.categoryValue = "Plastic"
  /\ ui.detectionText = "Water Bottle"

\* C14 witness: the first ("water bottle", 0.2) frame of a session has been
\* accepted, with the success tip and without confirmation
C14_WitnessFirst ==
  /\ detectionHistory = << "Water Bottle" >>
  /\ frame.kind = "accepted"
  /\ ~frame.confirmed
  /\ ~ui.detected
  /\ ShowsDetected(ui, "Water Bottle")
  /\ ui.categoryValue = "Scanning..."

\* C15: mapToRecycleBucket(label) returns the result of the earliest category,
\* in the order compost, paper, metal, glass, plastic, landfill, that has a
\* pattern equal to or contained in the lowercased label, whatever the length
\* or the position of the patterns, and null exactly when the label contains no
\* pattern of any category.
C15_EarliestCategoryWins ==
  /\ [k \in 1..6 |-> materialMappings[k].category]
       = <<"compost", "paper", "metal", "glass", "plastic", "landfill">>
  /\ frame.kind \in {"accepted", "unmatched"} =>
       LET label == frame.predictions[1].className
           categories == CategoriesOf(label)
       IN  IF categories = {}
             THEN frame.kind = "unmatched"
             ELSE /\ frame.kind = "accepted"
                  /\ \E k \in categories :
                       /\ \A m \in categories : k <= m
                       /\ [bucket |-> frame.bucket, displayName |-> frame.displayName]
                            = categoryResult(materialMappings[k].category, toLowerCase(label))

\* C15 witness: a label whose landfill pattern is longer than, and comes before,
\* its plastic pattern is mapped to Plastic
C15_Witness ==
  /\ frame.kind = "accepted"
  /\ frame.predictions[1].className = MechanicalPencil \o <<",", " ">> \o Cup
  /\ CategoriesOf(frame.predictions[1].className) = {5, 6}
  /\ frame.bucket = "Plastic"

\* C15 witness: a label no pattern is part of is mapped to null
C15_WitnessNull ==
  /\ frame.kind = "unmatched"
  /\ CategoriesOf(frame.predictions[1].className) = {}

\* C16: for every score of the hundredths grid in [0, 1] updateConfidence shows
\* percent = min(round(score * 3 * 100), 100), which lies in 0..100, and the tier
\* is low iff percent < 40, medium iff 40 <= percent < 70 and high iff
\* percent >= 70; 0.10 gives 30 and low, 0.20 gives 60 and medium, 0.30 gives 90
\* and high, and every score from 0.34 on gives 100 and high.
C16_PercentAndTier ==
  output # << >> =>
    LET score == input[1]
    IN  /\ ui.percent = (IF 3 * score < 100 THEN 3 * score ELSE 100)
        /\ ui.percent \in 0..100
        /\ (ui.tier = "low") = (ui.percent < 40)
        /\ (ui.tier = "medium") = (40 <= ui.percent /\ ui.percent < 70)
        /\ (ui.tier = "high") = (ui.percent >= 70)
        /\ score = 10 => ui.percent = 30 /\ ui.tier = "low"
        /\ score = 20 => ui.percent = 60 /\ ui.tier = "medium"
        /\ score = 30 => ui.percent = 90 /\ ui.tier = "high"
        /\ score >= 34 => ui.percent = 100 /\ ui.tier = "high"

\* C16 witness: the score 0.34, the first that is capped, shows 100 and high
C16_Witness ==
  /\ output # << >>
  /\ input[1] = 34
  /\ ui.percent = 100
  /\ ui.tier = "high"

\* C16 witness: the score 0.33 shows 99
C16_WitnessBelowCap ==
  /\ output # << >>
  /\ input[1] = 33
  /\ ui.percent = 99

\* C17: validateAndScoreDetection returns null for every region whose sizeRatio
\* (w * h over the frame area) is below 0.02 or above 0.85, whatever the score,
\* and for every other region and every score in [0, 1] a value that does not
\* exceed 1.0.
C17_NullOrAtMostOne ==
  output # << >> =>
    LET bboxArea == input[1][3] * input[1][4]
        frameArea == input[3].width * input[3].height
    IN  IF 100 * bboxArea < 2 * frameArea \/ 100 * bboxArea > 85 * frameArea
          THEN output[1] = NoScore
          ELSE /\ output[1].valid
               /\ output[1].score >= 0
               /\ output[1].score <= 100000

\* C17 witness: a centered region of good size and the score 0.77, whose boosted
\* score 0.77 * 1.3 exceeds 1.0, returns 1.0
C17_Witness ==
  /\ output # << >>
  /\ input[1] = <<5, 0, 10, 10>>
  /\ input[2] = 77
  /\ output[1].valid
  /\ output[1].score = 100000

\* C17 witness: a region of 90% of the frame returns null for the score 1.0
C17_WitnessTooLarge ==
  /\ output # << >>
  /\ input[1] = <<0, 0, 18, 10>>
  /\ input[2] = 100
  /\ output[1] = NoScore

\* C17 witness: a region of exactly 2% of the frame is scored
C17_WitnessSmallest ==
  /\ output # << >>
  /\ input[1] = <<5, 5, 2, 2>>
  /\ input[2] = 50
  /\ output[1].valid

\* what mapToRecycleBucket returned for the first prediction of a settled frame
\* whose probability is above the floor
ResultOf(f) ==
  IF f.kind = "accepted" THEN [bucket |-> f.bucket, displayName |-> f.displayName]
                         ELSE NoResult

\* C18: matching is case-insensitive: mapToRecycleBucket returns for a label and
\* for the label in capitals the same bucket and display name, or null for
\* both, also where the pattern is declared with capitals ("Granny Smith").
C18_CaseInsensitive ==
  frame.kind \in {"accepted", "unmatched"} =>
    LET label == frame.predictions[1].className
    IN  /\ ResultOf(frame) = mapToRecycleBucket(label)
        /\ ResultOf(frame) = mapToRecycleBucket(toUpperCase(label))

\* C18 witness: a label written with capitals and small letters, which contains
\* the pattern declared as "Granny Smith", is mapped to Compost
C18_Witness ==
  /\ frame.kind = "accepted"
  /\ LET label == frame.predictions[1].className
     IN  /\ \E i \in DOMAIN label : toLowerCase(label)[i] # label[i]
         /\ \E i \in DOMAIN label : toUpperCase(label)[i] # label[i]
         /\ includes(label, <<"G","r","a","n","n","y"," ","S","m","i","t","h">>)
  /\ frame.bucket = "Compost"

\* C18 witness: a pattern in capitals is mapped as the pattern is
C18_WitnessCapitals ==
  /\ frame.kind = "accepted"
  /\ frame.predictions[1].className = <<"D","R","U","M","S","T","I","C","K">>
  /\ frame.bucket = "Plastic"

\* C19: when two or more names share the highest frequency in the history,
\* getMostFrequent returns the one whose first occurrence is the oldest, not
\* the most recently observed one: the name returned has the highest frequency,
\* and every other name of that frequency occurs first at a later position.
C19_OldestFirstOccurrenceWins ==
  (output # << >> /\ Len(input[1]) > 0) =>
    LET arr == input[1]
        name == output[1][1]
        count == output[1][2]
    IN  /\ \E i \in DOMAIN arr : arr[i] = name
        /\ count = Occurrences(arr, name)
        /\ \A i \in DOMAIN arr :
             /\ Occurrences(arr, arr[i]) <= count
             /\ (Occurrences(arr, arr[i]) = count /\ arr[i] # name) =>
                  FirstOccurrence(arr, name) < FirstOccurrence(arr, arr[i])

\* C19 witness: Pen and Onion both occur twice, Pen first and Onion last: Pen
\* is returned
C19_Witness ==
  /\ output # << >>
  /\ input[1] = <<"Pen", "Onion", "Pen", "Glasses", "Onion">>
  /\ output[1] = <<"Pen", 2>>

\* C19 witness: of two names seen once each the older is returned
C19_WitnessPair ==
  /\ output # << >>
  /\ input[1] = <<"Onion", "Pen">>
  /\ output[1] = <<"Onion", 1>>

\* C20: while the session is running, every iteration of loop whose classifier
\* call settles, and every iteration that finds the video or the model not
\* ready, requests exactly one next iteration: there is always exactly one
\* requested iteration or one awaited classification, and each settling
\* requests one iteration.  Under fair scheduling frames are processed again and
\* again.  While a classification is awaited no iteration is requested and no
\* step other than its settling changes the state, so a call that never settles
\* ends the loop.
C20_LoopKeepsRunning ==
  /\ [](running => rafQueue + Len(classifying) = 1)
  /\ [][Settles => (rafQueue = 0 /\ rafQueue' = 1)]_vars
  /\ [][(Len(classifying) = 1 /\ ~Settles) => UNCHANGED vars]_vars
  /\ running ~> (Len(classifying) = 1)
  /\ (Len(classifying) = 1) ~> (rafQueue = 1 /\ frame.kind # "none")

\* C20 witness: after accepted frames a classification has failed and the next
\* iteration is requested
C20_Witness ==
  /\ running
  /\ rafQueue = 1
  /\ frame.kind = "failed"
  /\ Len(detectionHistory) = 5

\* C20 witness: a classification is awaited after a frame has been processed,
\* and no iteration is requested
C20_WitnessAwaiting ==
  /\ running
  /\ rafQueue = 0
  /\ Len(classifying) = 1
  /\ frame.kind = "accepted"

\* the bucket mapToRecycleBucket assigns to each display name
nameBucket ==
  [ name \in DisplayNames |-> mapToRecycleBucket(displayNameChars[name]).bucket ]

\* C21: whenever a confirmed result is shown, the displayed category is the
\* category of the displayed stable name: the bucket passed to updateCategoryUI
\* with the history's most frequent name is the bucket mapToRecycleBucket
\* assigns to that name ("Water Bottle" is only shown with Plastic).  (The code
\* passes the bucket of the frame's own prediction.)
C21_Original ==
  [][ (Settles /\ frame'.kind = "accepted" /\ frame'.confirmed) =>
        /\ ui'.detectionText = frame'.stableName
        /\ ui'.categoryValue = nameBucket[frame'.stableName] ]_vars

\* the display names have the buckets the claim names
C21_NameBuckets ==
  nameBucket = [ name \in DisplayNames |->
                   CASE name = "Onion" -> "Compost"
                     [] name = "Water Bottle" -> "Plastic"
                     [] OTHER -> "Landfill" ]

\* C22: only the four display names "Onion", "Water Bottle", "Glasses" and "Pen"
\* enter detectionHistory, so an accepted frame that finds HISTORY_SIZE = 5
\* entries is confirmed, and so is every accepted frame after a confirmed one:
\* a history with a repeated name keeps one, an accepted frame that finds a
\* repeated name or a full history is confirmed, and after an accepted frame the
\* detected marker is set exactly if the frame is confirmed.
C22_FourNamesConfirm ==
  /\ [](\A i \in DOMAIN detectionHistory :
          detectionHistory[i] \in {"Onion", "Water Bottle", "Glasses", "Pen"})
  /\ []((frame.kind = "accepted" /\ frame.confirmed) => HasRepeated(detectionHistory))
  /\ [][HasRepeated(detectionHistory) => HasRepeated(detectionHistory')]_vars
  /\ [][ (Settles /\ frame'.kind = "accepted") =>
           /\ frame'.displayName \in {"Onion", "Water Bottle", "Glasses", "Pen"}
           /\ (Len(detectionHistory) = 5 \/ HasRepeated(detectionHistory)) =>
                frame'.confirmed
           /\ ui'.detected = frame'.confirmed ]_vars

\* C22 witness: a frame has been accepted on a full history and is confirmed
\* although its own name occurs once: the four names are all in the history
C22_Witness ==
  /\ rafQueue = 1
  /\ frame.kind = "accepted"
  /\ frame.confirmed
  /\ ui.detected
  /\ Len(detectionHistory) = 5
  /\ { detectionHistory[i] : i \in DOMAIN detectionHistory }
       = {"Onion", "Water Bottle", "Glasses", "Pen"}
  /\ detectionHistory[5] = "Pen"
  /\ Occurrences(detectionHistory, "Pen") = 1

\* C22 witness: a frame has been accepted after a frame without detection had
\* removed the marker, and the marker is set again
C22_WitnessMarkerAgain ==
  /\ rafQueue = 1
  /\ frame.kind = "accepted"
  /\ frame.confirmed
  /\ ui.detected
  /\ Len(detectionHistory) = 3
  /\ frame.displayName # frame.stableName

\* C23: once a successful start has set running to true, no step sets it back
\* to false (the start button stays disabled and the handler stays returned, so
\* no start is repeated), and stopCamera() executes only while running is false
\* and detectionHistory is empty.
C23_RunningNeverReset ==
  /\ [][running => running']_vars
  /\ [](running => (startBtnDisabled /\ startPc = "done" /\ stream /\ mobileNetModel))
  /\ [][ (stream /\ ~stream') =>
           /\ ~running /\ ~running'
           /\ detectionHistory = << >> /\ detectionHistory' = << >> ]_vars

\* C23 witness: the camera was stopped by a retry after a failed start, and the
\* session started since is still running after accepted frames and a failed
\* classification
C23_Witness ==
  /\ cameraStopped
  /\ running
  /\ frame.kind = "failed"
  /\ detectionHistory # << >>
  /\ Len(classifying) = 1
=============================================================================
